---- MODULE Spec2Model ----
(***************************************************************************)
(* Y-ary: the bank based array generators of src/algorithms/arrayGens.ts   *)
(* (arrayWithBankNums, orderedArrayWithBankNums), its codec (decompressRow, *)
(* decompressMatrix) and the rules of src/index.ts the generators are       *)
(* called with.                                                             *)
(*                                                                         *)
(* One behaviour is one call.  Init draws the arguments of the call; every *)
(* step of a generator is one iteration of a loop of the source or one     *)
(* call/return of the recursive solver, Math.random() being a              *)
(* nondeterministic choice.  A call of a pure function (the codec, a rule)  *)
(* is one step from its arguments to its result.                            *)
(***************************************************************************)
EXTENDS Integers, Sequences, FiniteSets, TLC

VARIABLES
    call,        \* the function called: "random" | "ordered" (the generators),
                 \*   "decompressRow" | "decompressMatrix" | "rule"
    args,        \* the arguments of a call of a pure function
    suspended,   \* the locals of a second invocation while this one runs
    bankNums,    \* argument: function key -> maximum number of occurrences
    dims,        \* argument: <<length>> or <<rows, cols>>
    extraRules,  \* argument: a rule (see Rules), NoRule when omitted
    pc,          \* position in the code of the running call
    flatArray,   \* arrayWithBankNums: flatArray
    usageCount,  \* arrayWithBankNums: usageCount
    i,           \* arrayWithBankNums: the for loop's i
    attempts,    \* arrayWithBankNums: attempts of the current position
    stack,       \* orderedArrayWithBankNums: the pending calls of solve
    attempt,     \* orderedArrayWithBankNums: the restart loop's attempt
    result,      \* orderedArrayWithBankNums: result (null or an array)
    warnings,    \* the console.warn calls made so far
    output       \* the returned value, once pc = "done"

vars == <<call, args, suspended, bankNums, dims, extraRules, pc, flatArray,
          usageCount, i, attempts, stack, attempt, result, warnings, output>>

----------------------------------------------------------------------------
(* Bounds of the model. *)

MaxKey == 2      \* bank keys are drawn from 1..MaxKey
MaxLimit == 2    \* bank limits are drawn from 0..MaxLimit
MaxLen == 3      \* 1-D requests <<n>>, n in 0..MaxLen
MaxRows == 2     \* 2-D requests <<r, c>>, r in 0..MaxRows
MaxCols == 3     \*                        c in 0..MaxCols
MaxOrdKey == 3   \* SpecOrdered: bank keys are drawn from 1..MaxOrdKey
MaxOrdRows == 3  \* SpecOrdered: 2-D requests have up to MaxOrdRows rows
ScenKeys == 4    \* SpecOrdered: the scaled 6x3 request has a bank 1..ScenKeys,
ScenLimit == 2   \*   each number ScenLimit times, and dims <<ScenKeys, ScenLimit>>
TestRows == 3    \* SpecTest: the request is <<TestRows, testRowSize>>
EvenLen == 5     \* SpecOnlyEven: 1-D requests <<n>>, n in 0..EvenLen
OrdTestRows == 3 \* SpecOrderedTest: the largest request has OrdTestRows rows
MaxNum == 10        \* SpecRules: candidates are drawn from 0..MaxNum
MaxBuiltNum == 3    \* SpecRules: the array built so far holds numbers of
MaxBuiltLen == 3    \*   1..MaxBuiltNum, up to MaxBuiltLen of them
MaxRuleRowSize == 2 \* SpecRules: rowSize is undefined or in 1..MaxRuleRowSize
MaxSize == 6        \* SpecCodec, SpecCodecMatrix: size and rowSize are drawn from 0..MaxSize
MaxIndexes == 3     \* SpecCodec: decompressRow gets up to MaxIndexes indices
MaxMatrixRows == 2  \* SpecCodecMatrix: decompressMatrix gets up to MaxMatrixRows
MaxRowIndexes == 2  \*   rows of up to MaxRowIndexes indices
MaxPrefixNum == 4   \* SpecPrefixRules: the numbers of a sequence are in 1..MaxPrefixNum
MaxPrefixLen == 4   \* SpecPrefixRules: a sequence has up to MaxPrefixLen elements
MaxPositions == 3   \* SpecPrefixRules: noRepeatInLast(0..MaxPositions)
MaxImbalance == 2   \* SpecPrefixRules: balanceEvenOdd(0..MaxImbalance)

(* Program constants. *)

maxAttempts == 1000   \* arrayWithBankNums: draws per position
maxRestarts == 50     \* orderedArrayWithBankNums: full search attempts
testRowSize == 3      \* const rowSize = 3 of the rules of test/arrayTest.ts
testLimit == 3        \* the limit of every number of the bank of the test
ROW_SIZE == 3         \* const ROW_SIZE = 3 of the rules of the ordered test

(* JavaScript's undefined: what availableNumbers[randomIndex] reads from an *)
(* empty array, and the rowSize a rule sees when it is called without one.  *)
Undefined == -1

----------------------------------------------------------------------------
(* Helpers on sequences. *)

Last(s) == s[Len(s)]

Prefix(s, n) == SubSeq(s, 1, n)

\* Array.prototype.slice(-n) for n > 0: the last n elements (all, if fewer).
SliceLast(s, n) == IF Len(s) <= n THEN s ELSE SubSeq(s, Len(s) - n + 1, Len(s))

\* Array.prototype.slice(from, to) with 0 <= from <= to.
Slice(s, from, to) ==
    IF from >= Len(s) THEN <<>>
    ELSE SubSeq(s, from + 1, IF to > Len(s) THEN Len(s) ELSE to)

Includes(s, x) == \E k \in 1..Len(s) : s[k] = x

Abs(x) == IF x < 0 THEN 0 - x ELSE x

Count(s, x) == Cardinality({k \in 1..Len(s) : s[k] = x})

----------------------------------------------------------------------------
(* JavaScript arithmetic on a value that may be undefined: undefined turns  *)
(* into NaN, and every comparison with NaN but !== is false.                *)

IsNum(x) == x # Undefined

\* x % 2 === 0
IsEven(x) == IsNum(x) /\ x % 2 = 0

\* a > b
Greater(a, b) == IsNum(a) /\ IsNum(b) /\ a > b

\* Math.abs(a - b) !== d
AbsDiffIsNot(a, b, d) == ~(IsNum(a) /\ IsNum(b)) \/ Abs(a - b) # d

\* n % m !== 0, for n >= 0: NaN when m is undefined or 0
RemIsNotZero(n, m) == ~IsNum(m) \/ m = 0 \/ n % m # 0

----------------------------------------------------------------------------
(* decompressRow, decompressMatrix; resultRow is the result of the source *)

\* if (index >= 1 && index <= size) result[index - 1] = true, read 0-based
\* for 1-based
MarkIndexZeroBased(resultRow, index, size) ==
    IF index >= 0 /\ index < size
    THEN [resultRow EXCEPT ![index + 1] = TRUE] ELSE resultRow

\* if (index >= 1 && index <= size) result[index - 1] = true
MarkIndex(resultRow, index, size) ==
    IF index >= 1 /\ index <= size
    THEN [resultRow EXCEPT ![index] = TRUE] ELSE resultRow

\* ForOfIndexes that stops after the first index
ForOfIndexesFirstOnly(resultRow, compressedRow, size) ==
    IF compressedRow = <<>> THEN resultRow
    ELSE MarkIndex(resultRow, Head(compressedRow), size)

\* for (const index of compressedRow) { ... }
RECURSIVE ForOfIndexes(_, _, _)
ForOfIndexes(resultRow, compressedRow, size) ==
    IF compressedRow = <<>> THEN resultRow
    ELSE ForOfIndexes(MarkIndex(resultRow, Head(compressedRow), size),
                      Tail(compressedRow), size)

\* new Array(size).fill(false), the loop, return result
decompressRow(compressedRow, size) ==
    ForOfIndexes([p \in 1..size |-> FALSE], compressedRow, size)

\* decompressMatrix with the rows taken from the last to the first
decompressMatrixReversed(compressedMatrix, rowSize) ==
    [k \in DOMAIN compressedMatrix |->
        decompressRow(compressedMatrix[Len(compressedMatrix) + 1 - k], rowSize)]

\* compressedMatrix.map(row => decompressRow(row, rowSize))
decompressMatrix(compressedMatrix, rowSize) ==
    [k \in DOMAIN compressedMatrix |->
        decompressRow(compressedMatrix[k], rowSize)]

----------------------------------------------------------------------------
(* The rules.  A rule is a record naming the function; Apply evaluates it   *)
(* on (candidateNum, currentArray, rowSize).                                *)

NoRule == [op |-> "none"]

onlyEven == [op |-> "onlyEven"]

ascending == [op |-> "ascending"]

\* the other rules of the library (src/index.ts); a rule made by a function
\* of the library keeps the arguments of that function
onlyOdd == [op |-> "onlyOdd"]

inRange(min, max) == [op |-> "inRange", min |-> min, max |-> max]

notInRange(min, max) == [op |-> "notInRange", min |-> min, max |-> max]

noConsecutiveRepeats == [op |-> "noConsecutiveRepeats"]

maxOccurrences(maxCount) == [op |-> "maxOccurrences", maxCount |-> maxCount]

noDuplicates == [op |-> "noDuplicates"]

noRepeatInLast(positions) == [op |-> "noRepeatInLast", positions |-> positions]

sumLessThan(maxSum) == [op |-> "sumLessThan", maxSum |-> maxSum]

sumGreaterThan(minSum) == [op |-> "sumGreaterThan", minSum |-> minSum]

averageInRange(min, max) == [op |-> "averageInRange", min |-> min, max |-> max]

descending == [op |-> "descending"]

different == [op |-> "different"]

alternateEvenOdd == [op |-> "alternateEvenOdd"]

divisibleBy(divisor) == [op |-> "divisibleBy", divisor |-> divisor]

notDivisibleBy(divisor) == [op |-> "notDivisibleBy", divisor |-> divisor]

\* rules: a function from positions to rules
byPosition(rules) == [op |-> "byPosition", rules |-> rules]

onEvenPositions(rule) == [op |-> "onEvenPositions", rule |-> rule]

onOddPositions(rule) == [op |-> "onOddPositions", rule |-> rule]

or(rules) == [op |-> "or", rules |-> rules]

not(rule) == [op |-> "not", rule |-> rule]

onlyPrimes == [op |-> "onlyPrimes"]

onlySquares == [op |-> "onlySquares"]

maxDifference(maxDiff) == [op |-> "maxDifference", maxDiff |-> maxDiff]

minDifference(minDiff) == [op |-> "minDifference", minDiff |-> minDiff]

balanceEvenOdd(maxImbalance) ==
    [op |-> "balanceEvenOdd", maxImbalance |-> maxImbalance]

valueAtPositions(allowedPositions, value) ==
    [op |-> "valueAtPositions", allowedPositions |-> allowedPositions,
     value |-> value]

noConsecutiveInRow == [op |-> "noConsecutiveInRow"]

noThreeRowsWithSameNumber == [op |-> "noThreeRowsWithSameNumber"]

and(rules) == [op |-> "and", rules |-> rules]

complexRules == and(<<noConsecutiveInRow, noThreeRowsWithSameNumber>>)

\* the rules of the test of orderedArrayWithBankNums
noRepeatInRow == [op |-> "noRepeatInRow"]

noThreeConsecutive == [op |-> "noThreeConsecutive"]

maxDiff4 == [op |-> "maxDiff4"]

noThreeRowsSamePos == [op |-> "noThreeRowsSamePos"]

allRules ==
    and(<<noRepeatInRow, noThreeConsecutive, maxDiff4, noThreeRowsSamePos>>)

\* a caller's rule that reads its third argument: every row starts with 1
rowStartsWithOne == [op |-> "rowStartsWithOne"]

ApplyNoConsecutiveInRow(num, arr) ==
    LET positionInRow == Len(arr) % testRowSize
    IN  IF positionInRow = 0 THEN TRUE
        ELSE AbsDiffIsNot(num, Last(arr), 1)

ApplyNoThreeRows(num, arr) ==
    LET totalRows == Len(arr) \div testRowSize
        lastTwoRows == SliceLast(arr, testRowSize * 2)
        firstRow == Slice(lastTwoRows, 0, testRowSize)
        secondRow == Slice(lastTwoRows, testRowSize, testRowSize * 2)
        rowsWithNumber == (IF Includes(firstRow, num) THEN 1 ELSE 0)
                          + (IF Includes(secondRow, num) THEN 1 ELSE 0)
    IN  IF totalRows < 2 THEN TRUE ELSE rowsWithNumber < 2

getRow(len) == len \div ROW_SIZE

getPosInRow(len) == len % ROW_SIZE

ApplyNoRepeatInRow(num, arr) ==
    LET pos == getPosInRow(Len(arr))
        rowStart == getRow(Len(arr)) * ROW_SIZE
    IN  IF pos = 0 THEN TRUE
        ELSE ~Includes(Slice(arr, rowStart, Len(arr)), num)

\* arr[start] and arr[start + 1] are read 1-based
ApplyNoThreeConsecutive(num, arr) ==
    LET pos == getPosInRow(Len(arr))
        start == getRow(Len(arr)) * ROW_SIZE
    IN  IF pos < 2 THEN TRUE
        ELSE LET first == arr[start + 1]
                 second == arr[start + 2]
             IN  ~(second = first + 1 /\ num = second + 1)

ApplyMaxDiff4(num, arr) ==
    LET pos == getPosInRow(Len(arr))
    IN  IF pos = 0 THEN TRUE ELSE Abs(num - Last(arr)) <= 4

\* ApplyNoThreeRowsSamePos with "row <= 2" for "row < 2"
ApplyNoThreeRowsSamePosLate(num, arr) ==
    LET row == getRow(Len(arr))
        pos == getPosInRow(Len(arr))
        p1 == (row - 1) * ROW_SIZE + pos
        p2 == (row - 2) * ROW_SIZE + pos
    IN  IF row <= 2 THEN TRUE
        ELSE IF p1 >= Len(arr) \/ p2 >= Len(arr) THEN TRUE
        ELSE ~(arr[p1 + 1] = arr[p2 + 1] /\ arr[p1 + 1] = num)

\* arr[p1] and arr[p2] are read 1-based
ApplyNoThreeRowsSamePos(num, arr) ==
    LET row == getRow(Len(arr))
        pos == getPosInRow(Len(arr))
        p1 == (row - 1) * ROW_SIZE + pos
        p2 == (row - 2) * ROW_SIZE + pos
    IN  IF row < 2 THEN TRUE
        ELSE IF p1 >= Len(arr) \/ p2 >= Len(arr) THEN TRUE
        ELSE ~(arr[p1 + 1] = arr[p2 + 1] /\ arr[p1 + 1] = num)

\* arr.reduce((sum, n) => sum + n, 0)
RECURSIVE Sum(_)
Sum(arr) == IF arr = <<>> THEN 0 ELSE Head(arr) + Sum(Tail(arr))

\* arr.slice(-positions) for positions >= 0: -0 is 0, and slice(0) is the
\* whole array
SliceNegative(arr, positions) ==
    IF positions = 0 THEN arr ELSE SliceLast(arr, positions)

\* arr.filter(n => n % 2 === 0).length
EvenCount(arr) == Cardinality({k \in 1..Len(arr) : IsEven(arr[k])})

\* onlyPrimes: no i in 2..sqrt(num) divides num
IsPrime(num) ==
    num >= 2 /\ \A d \in 2..num : d * d <= num => num % d # 0

\* onlySquares: Math.sqrt(num) === Math.floor(Math.sqrt(num))
IsSquare(num) == \E k \in 0..num : k * k = num

\* Balanced with the surplus of the even numbers checked only
BalancedEvenOnly(num, arr, maxImbalance) ==
    LET evenCount == EvenCount(arr)
        oddCount == Len(arr) - evenCount
    IN  IF IsEven(num)
        THEN (evenCount + 1) - oddCount <= maxImbalance
        ELSE TRUE

\* balanceEvenOdd(maxImbalance)
Balanced(num, arr, maxImbalance) ==
    LET evenCount == EvenCount(arr)
        oddCount == Len(arr) - evenCount
    IN  IF IsEven(num)
        THEN (evenCount + 1) - oddCount <= maxImbalance
        ELSE (oddCount + 1) - evenCount <= maxImbalance

\* every with the first rule left out
everyButFirst(verdicts) == \A k \in DOMAIN verdicts \ {1} : verdicts[k]

\* rules.every(rule => rule(num, arr)), on the verdicts of the rules
every(verdicts) == \A k \in DOMAIN verdicts : verdicts[k]

\* some with the first rule left out
someButFirst(verdicts) == \E k \in DOMAIN verdicts \ {1} : verdicts[k]

\* rules.some(rule => rule(num, arr)), on the verdicts of the rules
some(verdicts) == \E k \in DOMAIN verdicts : verdicts[k]

\* negate without the !
negateNothing(verdict) == verdict

\* !rule(num, arr), on the verdict of the rule
negate(verdict) == ~verdict

\* the rules of the library that call no other rule, on numbers (a bank's
\* keys); they read (num, arr) only
ApplyBasic(rule, num, arr) ==
    CASE rule.op = "onlyEven" -> IsEven(num)
      [] rule.op = "onlyOdd" -> ~IsEven(num)
      [] rule.op = "inRange" -> num >= rule.min /\ num <= rule.max
      [] rule.op = "notInRange" -> num < rule.min \/ num > rule.max
      [] rule.op = "noConsecutiveRepeats" ->
            IF Len(arr) = 0 THEN TRUE ELSE Last(arr) # num
      [] rule.op = "maxOccurrences" -> Count(arr, num) < rule.maxCount
      [] rule.op = "noDuplicates" -> ~Includes(arr, num)
      [] rule.op = "noRepeatInLast" ->
            ~Includes(SliceNegative(arr, rule.positions), num)
      [] rule.op = "sumLessThan" -> Sum(arr) + num < rule.maxSum
      [] rule.op = "sumGreaterThan" -> Sum(arr) + num > rule.minSum
      [] rule.op = "averageInRange" ->
            \* newAverage = newSum / (arr.length + 1), compared exactly
            LET newSum == Sum(arr) + num
            IN  IF Len(arr) = 0 THEN TRUE
                ELSE /\ newSum >= rule.min * (Len(arr) + 1)
                     /\ newSum <= rule.max * (Len(arr) + 1)
      [] rule.op = "ascending" ->
            IF Len(arr) = 0 THEN TRUE ELSE Greater(num, Last(arr))
      [] rule.op = "descending" ->
            IF Len(arr) = 0 THEN TRUE ELSE Greater(Last(arr), num)
      [] rule.op = "different" ->
            IF Len(arr) = 0 THEN TRUE ELSE num # Last(arr)
      [] rule.op = "alternateEvenOdd" ->
            IF Len(arr) = 0 THEN TRUE ELSE IsEven(Last(arr)) # IsEven(num)
      [] rule.op = "divisibleBy" ->
            rule.divisor # 0 /\ num % rule.divisor = 0
      [] rule.op = "notDivisibleBy" ->
            ~(rule.divisor # 0 /\ num % rule.divisor = 0)
      [] rule.op = "onlyPrimes" -> IsPrime(num)
      [] rule.op = "onlySquares" -> IsSquare(num)
      [] rule.op = "maxDifference" ->
            IF Len(arr) = 0 THEN TRUE
            ELSE Abs(num - Last(arr)) <= rule.maxDiff
      [] rule.op = "minDifference" ->
            IF Len(arr) = 0 THEN TRUE
            ELSE Abs(num - Last(arr)) >= rule.minDiff
      [] rule.op = "balanceEvenOdd" -> Balanced(num, arr, rule.maxImbalance)
      [] rule.op = "valueAtPositions" ->
            IF num = rule.value
            THEN Includes(rule.allowedPositions, Len(arr)) ELSE TRUE

\* a rule called with (num, arr, rowSize); a rule called by a rule of the
\* library gets (num, arr), its rowSize is undefined
RECURSIVE Apply(_, _, _, _)
Apply(rule, num, arr, rowSize) ==
    CASE rule.op = "noConsecutiveInRow" -> ApplyNoConsecutiveInRow(num, arr)
      [] rule.op = "noThreeRowsWithSameNumber" -> ApplyNoThreeRows(num, arr)
      [] rule.op = "noRepeatInRow" -> ApplyNoRepeatInRow(num, arr)
      [] rule.op = "noThreeConsecutive" -> ApplyNoThreeConsecutive(num, arr)
      [] rule.op = "maxDiff4" -> ApplyMaxDiff4(num, arr)
      [] rule.op = "noThreeRowsSamePos" -> ApplyNoThreeRowsSamePos(num, arr)
      [] rule.op = "rowStartsWithOne" ->
            RemIsNotZero(Len(arr), rowSize) \/ num = 1
      [] rule.op = "and" ->
            every([k \in 1..Len(rule.rules) |->
                      Apply(rule.rules[k], num, arr, Undefined)])
      [] rule.op = "or" ->
            some([k \in 1..Len(rule.rules) |->
                     Apply(rule.rules[k], num, arr, Undefined)])
      [] rule.op = "not" -> negate(Apply(rule.rule, num, arr, Undefined))
      [] rule.op = "byPosition" ->
            LET position == Len(arr)
            IN  IF position \in DOMAIN rule.rules
                THEN Apply(rule.rules[position], num, arr, Undefined)
                ELSE TRUE
      [] rule.op = "onEvenPositions" ->
            IF Len(arr) % 2 = 0
            THEN Apply(rule.rule, num, arr, Undefined) ELSE TRUE
      [] rule.op = "onOddPositions" ->
            IF Len(arr) % 2 # 0
            THEN Apply(rule.rule, num, arr, Undefined) ELSE TRUE
      [] OTHER -> ApplyBasic(rule, num, arr)

\* PassesExtraRules with the rule never consulted
PassesExtraRulesSkipped(rule, num, arr, rowSize) == TRUE

\* extraRules ? extraRules(...) : true
PassesExtraRules(rule, num, arr, rowSize) ==
    IF rule = NoRule THEN TRUE ELSE Apply(rule, num, arr, rowSize)

----------------------------------------------------------------------------
(* The arguments of a call. *)

Keys == 1..MaxKey

Banks == UNION {[K -> 0..MaxLimit] : K \in SUBSET Keys}

Dims == {<<n>> : n \in 0..MaxLen}
        \cup {<<r, c>> : r \in 0..MaxRows, c \in 0..MaxCols}

\* the arguments SpecOrdered draws: more keys and rows for the search
OrdBanks == UNION {[K -> 0..MaxLimit] : K \in SUBSET (1..MaxOrdKey)}

OrdDims == {<<n>> : n \in 0..MaxLen}
           \cup {<<r, c>> : r \in 0..MaxOrdRows, c \in 0..MaxCols}

\* the 6x3 request of the tests ({1:3, ..., 6:3}, [6, 3]), scaled: as many
\* rows as numbers, as many columns as the limit
ScenBank == [n \in 1..ScenKeys |-> ScenLimit]

ScenDims == <<ScenKeys, ScenLimit>>

\* the arguments of test/arrayTest.ts, scaled: three of the six numbers of
\* its bank (two of them neighbours), and TestRows of its six rows
TestBankKeys == {1, 2, 4}

TestBank == [n \in TestBankKeys |-> testLimit]

TestDims == <<TestRows, testRowSize>>

Rules == {NoRule, onlyEven, ascending, noConsecutiveInRow, rowStartsWithOne}

is2D == Len(dims) = 2

totalElements == IF is2D THEN dims[1] * dims[2] ELSE dims[1]

\* rowSize with rows of one element for a 1-D request
rowSizeOneIfFlat == IF Len(dims) = 2 THEN dims[2] ELSE 1

\* rowSize taken from dims[0] for a matrix too
rowSizeFromRows == dims[1]

\* orderedArrayWithBankNums: rowSize
rowSize == IF is2D THEN dims[2] ELSE dims[1]

\* Object.keys(bankNums).map(Number): integer keys come in ascending order
RECURSIVE SortedSeq(_)
SortedSeq(S) ==
    IF S = {} THEN <<>>
    ELSE LET m == CHOOSE x \in S : \A y \in S : x <= y
         IN  <<m>> \o SortedSeq(S \ {m})

availableNumbers == SortedSeq(DOMAIN bankNums)

\* usageCount[n] || 0, on a usageCount kept as a total function
EmptyUsage == [n \in DOMAIN bankNums \cup {Undefined} |-> 0]

\* bankNums[n]: undefined for a key the bank does not have
BankLimit(n) == IF n \in DOMAIN bankNums THEN bankNums[n] ELSE Undefined

\* LimitReached with > for >=
LimitReachedStrict(currentUsage, maxUsage) == IsNum(maxUsage) /\ currentUsage > maxUsage

\* currentUsage >= maxUsage (false against undefined)
LimitReached(currentUsage, maxUsage) == IsNum(maxUsage) /\ currentUsage >= maxUsage

\* the reshaping loops: rows of cols elements, cut where flat ends
RowOf(flat, row, cols) == Slice(flat, row * cols, row * cols + cols)

Fold(flat, rows, cols) == [row \in 1..rows |-> RowOf(flat, row - 1, cols)]

RECURSIVE Flatten(_)
Flatten(matrix) ==
    IF matrix = <<>> THEN <<>> ELSE Head(matrix) \o Flatten(Tail(matrix))

----------------------------------------------------------------------------
(* arrayWithBankNums *)

\* availableNumbers[randomIndex], randomIndex = floor(random * length)
RandomIndexes ==
    IF Len(availableNumbers) = 0 THEN {0} ELSE 0..(Len(availableNumbers) - 1)

Selected(randomIndex) ==
    IF randomIndex < Len(availableNumbers)
    THEN availableNumbers[randomIndex + 1] ELSE Undefined

\* WhileCondition with <= for <
WhileConditionOffByOne == attempts <= maxAttempts

\* while (candidateNum === null && attempts < maxAttempts); candidateNum is
\* null whenever pc = "loop", a chosen candidate being pushed in the same step
WhileCondition == attempts < maxAttempts

\* one iteration of the while loop, and the push that follows it when the
\* iteration sets candidateNum
RDraw ==
    /\ call = "random" /\ pc = "loop"
    /\ i < totalElements
    /\ WhileCondition
    /\ \E randomIndex \in RandomIndexes :
         LET selectedNum == Selected(randomIndex)
             currentUsage == usageCount[selectedNum]
             maxUsage == BankLimit(selectedNum)
         IN  IF LimitReached(currentUsage, maxUsage)
             THEN /\ attempts' = attempts + 1
                  /\ UNCHANGED <<flatArray, usageCount, i>>
             ELSE IF PassesExtraRules(extraRules, selectedNum, flatArray, Undefined)
             THEN /\ flatArray' = Append(flatArray, selectedNum)
                  /\ usageCount' = [usageCount EXCEPT ![selectedNum] = @ + 1]
                  /\ i' = i + 1
                  /\ attempts' = 0
             ELSE /\ attempts' = attempts + 1
                  /\ UNCHANGED <<flatArray, usageCount, i>>
    /\ UNCHANGED <<call, args, suspended, bankNums, dims, extraRules, pc, stack, attempt,
                   result, warnings, output>>

\* RExhaust taking the last element back to draw it again
RExhaustRevises ==
    /\ call = "random" /\ pc = "loop"
    /\ i < totalElements
    /\ ~WhileCondition
    /\ warnings' = Append(warnings, [position |-> i, cap |-> maxAttempts])
    /\ IF flatArray = <<>>
       THEN pc' = "reshape" /\ UNCHANGED <<flatArray, usageCount, i, attempts>>
       ELSE /\ flatArray' = Prefix(flatArray, Len(flatArray) - 1)
            /\ usageCount' = [usageCount EXCEPT ![Last(flatArray)] = @ - 1]
            /\ i' = i - 1
            /\ pc' = "reshape"
            /\ UNCHANGED attempts
    /\ UNCHANGED <<call, args, suspended, bankNums, dims, extraRules, stack,
                   attempt, result, output>>

\* RExhaust with continue for break: the next position is tried
RExhaustContinues ==
    /\ call = "random" /\ pc = "loop"
    /\ i < totalElements
    /\ ~WhileCondition
    /\ warnings' = Append(warnings, [position |-> i, cap |-> maxAttempts])
    /\ i' = i + 1
    /\ attempts' = 0
    /\ UNCHANGED <<call, args, suspended, bankNums, dims, extraRules, pc, flatArray, usageCount,
                   stack, attempt, result, output>>

\* the while loop ends with candidateNum === null: console.warn and break
RExhaust ==
    /\ call = "random" /\ pc = "loop"
    /\ i < totalElements
    /\ ~WhileCondition
    /\ warnings' = Append(warnings, [position |-> i, cap |-> maxAttempts])
    /\ pc' = "reshape"
    /\ UNCHANGED <<call, args, suspended, bankNums, dims, extraRules, flatArray, usageCount, i,
                   attempts, stack, attempt, result, output>>

\* the for loop ends with i = totalElements
RLoopEnd ==
    /\ call = "random" /\ pc = "loop"
    /\ i >= totalElements
    /\ pc' = "reshape"
    /\ UNCHANGED <<call, args, suspended, bankNums, dims, extraRules, flatArray, usageCount, i,
                   attempts, stack, attempt, result, warnings, output>>

\* RReturn taking the row count out of dims with dims.shift()
RReturnShiftsDims ==
    /\ call = "random" /\ pc = "reshape"
    /\ output' = IF is2D THEN Fold(flatArray, dims[1], dims[2]) ELSE flatArray
    /\ dims' = IF is2D THEN Tail(dims) ELSE dims
    /\ pc' = "done"
    /\ UNCHANGED <<call, args, suspended, bankNums, extraRules, flatArray, usageCount, i,
                   attempts, stack, attempt, result, warnings>>

\* the reshaping and the return
RReturn ==
    /\ call = "random" /\ pc = "reshape"
    /\ output' = IF is2D THEN Fold(flatArray, dims[1], dims[2]) ELSE flatArray
    /\ pc' = "done"
    /\ UNCHANGED <<call, args, suspended, bankNums, dims, extraRules, flatArray, usageCount, i,
                   attempts, stack, attempt, result, warnings>>

----------------------------------------------------------------------------
(* shuffleArray: Fisher-Yates, every j = floor(random * (i + 1)) a choice.  *)
(* The set of the arrays one call can return.                               *)

Swap(array, a, b) == [array EXCEPT ![a] = array[b], ![b] = array[a]]

\* the loop from index i (0-based) down to 1
RECURSIVE ShuffleFrom(_, _)
ShuffleFrom(array, idx) ==
    IF idx <= 0 THEN {array}
    ELSE UNION {ShuffleFrom(Swap(array, idx + 1, j + 1), idx - 1) : j \in 0..idx}

shuffleArray(array) == ShuffleFrom(array, Len(array) - 1)

----------------------------------------------------------------------------
(* orderedArrayWithBankNums *)

\* result: null, or an array
Null == [null |-> TRUE, array |-> <<>>]

Found(array) == [null |-> FALSE, array |-> array]

sortedNumbers == SortedSeq(DOMAIN bankNums)

\* AboveMin with >= for >
AboveMinOrEqual(num, flat) ==
    LET posInRow == Len(flat) % (IF Len(dims) = 2 THEN dims[2] ELSE dims[1])
    IN  IF posInRow = 0 THEN TRUE ELSE num >= Last(flat)

\* num > minValue, minValue = -Infinity at the first position of a row
AboveMin(num, flat) ==
    LET posInRow == Len(flat) % rowSize
    IN  IF posInRow = 0 THEN TRUE ELSE num > Last(flat)

\* sortedNumbers.filter(...)
Candidates(flat, usage) ==
    SelectSeq(sortedNumbers,
              LAMBDA num : usage[num] < bankNums[num] /\ AboveMin(num, flat))

\* the calls of solve(flat, usage) that reach the for loop: one per shuffle
Frames(flat, usage) ==
    {[flatArray |-> flat, usageCount |-> usage, shuffled |-> sh] :
        sh \in shuffleArray(Candidates(flat, usage))}

Top == stack[Len(stack)]

Pop == SubSeq(stack, 1, Len(stack) - 1)

\* OAttempt with the loop condition "result === null" left out
OAttemptAfterSuccess ==
    /\ call = "ordered" /\ pc = "attempts"
    /\ attempt < maxRestarts
    /\ IF Len(<<>>) = totalElements
       THEN /\ result' = Found(<<>>)
            /\ attempt' = attempt + 1
            /\ UNCHANGED <<pc, stack>>
       ELSE /\ \E frame \in Frames(<<>>, EmptyUsage) : stack' = <<frame>>
            /\ pc' = "solve"
            /\ UNCHANGED <<result, attempt>>
    /\ UNCHANGED <<call, args, suspended, bankNums, dims, extraRules, flatArray, usageCount, i,
                   attempts, warnings, output>>

\* the restart loop calls solve([], {})
OAttempt ==
    /\ call = "ordered" /\ pc = "attempts"
    /\ attempt < maxRestarts /\ result = Null
    /\ IF Len(<<>>) = totalElements
       THEN /\ result' = Found(<<>>)
            /\ attempt' = attempt + 1
            /\ UNCHANGED <<pc, stack>>
       ELSE /\ \E frame \in Frames(<<>>, EmptyUsage) : stack' = <<frame>>
            /\ pc' = "solve"
            /\ UNCHANGED <<result, attempt>>
    /\ UNCHANGED <<call, args, suspended, bankNums, dims, extraRules, flatArray, usageCount, i,
                   attempts, warnings, output>>

\* OTry counting the use in the caller's usageCount too (usageCount[num]++
\* on the object itself, no copy): a branch given up stays counted
OTryCountsInPlace ==
    /\ call = "ordered" /\ pc = "solve"
    /\ Top.shuffled # <<>>
    /\ LET num == Head(Top.shuffled)
           rest == [Top EXCEPT !.shuffled = Tail(Top.shuffled)]
           newArray == Append(Top.flatArray, num)
           newUsage == [Top.usageCount EXCEPT ![num] = @ + 1]
           counted == [rest EXCEPT !.usageCount = newUsage]
       IN  IF ~PassesExtraRules(extraRules, num, Top.flatArray, rowSize)
           THEN /\ stack' = Append(Pop, rest)
                /\ UNCHANGED <<pc, result>>
           ELSE IF Len(newArray) = totalElements
           THEN /\ stack' = Append(Pop, counted)
                /\ result' = Found(newArray)
                /\ pc' = "return"
           ELSE /\ \E frame \in Frames(newArray, newUsage) :
                      stack' = Append(Append(Pop, counted), frame)
                /\ UNCHANGED <<pc, result>>
    /\ UNCHANGED <<call, args, suspended, bankNums, dims, extraRules, flatArray,
                   usageCount, i, attempts, attempt, warnings, output>>

\* one iteration of the for loop of the innermost call of solve: the rule,
\* and the recursive call up to its own for loop
OTry ==
    /\ call = "ordered" /\ pc = "solve"
    /\ Top.shuffled # <<>>
    /\ LET num == Head(Top.shuffled)
           rest == [Top EXCEPT !.shuffled = Tail(Top.shuffled)]
           newArray == Append(Top.flatArray, num)
           newUsage == [Top.usageCount EXCEPT ![num] = @ + 1]
       IN  IF ~PassesExtraRules(extraRules, num, Top.flatArray, rowSize)
           THEN /\ stack' = Append(Pop, rest)
                /\ UNCHANGED <<pc, result>>
           ELSE IF Len(newArray) = totalElements
           THEN /\ stack' = Append(Pop, rest)
                /\ result' = Found(newArray)
                /\ pc' = "return"
           ELSE /\ \E frame \in Frames(newArray, newUsage) :
                      stack' = Append(Append(Pop, rest), frame)
                /\ UNCHANGED <<pc, result>>
    /\ UNCHANGED <<call, args, suspended, bankNums, dims, extraRules, flatArray, usageCount, i,
                   attempts, attempt, warnings, output>>

\* OFail without backtracking: a dead end fails the whole attempt
OFailGivesUp ==
    /\ call = "ordered" /\ pc = "solve"
    /\ Top.shuffled = <<>>
    /\ stack' = <<>>
    /\ attempt' = attempt + 1
    /\ pc' = "attempts"
    /\ UNCHANGED <<call, args, suspended, bankNums, dims, extraRules, flatArray, usageCount, i,
                   attempts, result, warnings, output>>

\* OFail with "return flatArray" for "return null"
OFailReturnsArray ==
    /\ call = "ordered" /\ pc = "solve"
    /\ Top.shuffled = <<>>
    /\ result' = Found(Top.flatArray)
    /\ pc' = "return"
    /\ UNCHANGED <<call, args, suspended, bankNums, dims, extraRules, flatArray, usageCount, i,
                   attempts, stack, attempt, warnings, output>>

\* the for loop of the innermost call is over: return null
OFail ==
    /\ call = "ordered" /\ pc = "solve"
    /\ Top.shuffled = <<>>
    /\ stack' = Pop
    /\ IF Len(stack) = 1
       THEN attempt' = attempt + 1 /\ pc' = "attempts"
       ELSE UNCHANGED <<attempt, pc>>
    /\ UNCHANGED <<call, args, suspended, bankNums, dims, extraRules, flatArray, usageCount, i,
                   attempts, result, warnings, output>>

\* result !== null: the innermost pending call returns it to its caller
OReturn ==
    /\ call = "ordered" /\ pc = "return"
    /\ stack' = Pop
    /\ IF Len(stack) = 1
       THEN attempt' = attempt + 1 /\ pc' = "attempts"
       ELSE UNCHANGED <<attempt, pc>>
    /\ UNCHANGED <<call, args, suspended, bankNums, dims, extraRules, flatArray, usageCount, i,
                   attempts, result, warnings, output>>

\* the reshaping of a result: rows that hold nothing are not pushed
FoldNonEmpty(flat, rows, cols) ==
    SelectSeq(Fold(flat, rows, cols), LAMBDA rowArray : Len(rowArray) > 0)

\* the restart loop is over: the warning, the reshaping and the return
OFinish ==
    /\ call = "ordered" /\ pc = "attempts"
    /\ ~(attempt < maxRestarts /\ result = Null)
    /\ LET final == IF result = Null THEN <<>> ELSE result.array
       IN  /\ result' = Found(final)
           /\ output' = IF is2D /\ Len(final) > 0
                        THEN FoldNonEmpty(final, dims[1], dims[2])
                        ELSE final
    /\ warnings' = IF result = Null
                   THEN Append(warnings, [position |-> Undefined, cap |-> maxRestarts])
                   ELSE warnings
    /\ pc' = "done"
    /\ UNCHANGED <<call, args, suspended, bankNums, dims, extraRules, flatArray, usageCount, i,
                   attempts, stack, attempt>>

----------------------------------------------------------------------------

\* the locals of a call at its start
StartLocals ==
    /\ args = <<>>
    /\ pc = IF call = "random" THEN "loop" ELSE "attempts"
    /\ flatArray = <<>>
    /\ usageCount = EmptyUsage
    /\ i = 0
    /\ attempts = 0
    /\ stack = <<>>
    /\ attempt = 0
    /\ result = Null
    /\ warnings = <<>>
    /\ output = <<>>

\* a call on its own: no second invocation
Start == suspended = <<>> /\ StartLocals

Init ==
    /\ call \in {"random", "ordered"}
    /\ bankNums \in Banks
    /\ dims \in Dims
    /\ extraRules \in Rules
    /\ Start

Next ==
    \/ RDraw \/ RExhaust \/ RLoopEnd \/ RReturn
    \/ OAttempt \/ OTry \/ OFail \/ OReturn \/ OFinish

Spec == Init /\ [][Next]_vars

\* orderedArrayWithBankNums alone, on larger banks and matrices
InitOrdered ==
    /\ call = "ordered"
    /\ \/ bankNums \in OrdBanks /\ dims \in OrdDims /\ extraRules \in Rules
       \/ bankNums = ScenBank /\ dims = ScenDims /\ extraRules = NoRule
    /\ Start

NextOrdered == OAttempt \/ OTry \/ OFail \/ OReturn \/ OFinish

SpecOrdered == InitOrdered /\ [][NextOrdered]_vars

\* a call runs to completion on the calling thread: it is never suspended.
\* The reshaping being one step after the loops, calls of arrayWithBankNums
\* are drawn with 1-D requests only.
InitFair ==
    /\ call \in {"random", "ordered"}
    /\ bankNums \in Banks
    /\ dims \in IF call = "random" THEN {<<n>> : n \in 0..MaxLen} ELSE Dims
    /\ extraRules \in Rules
    /\ Start

FairSpec == InitFair /\ [][Next]_vars /\ WF_vars(Next)

\* the call of test/arrayTest.ts
InitTest ==
    /\ call = "random"
    /\ bankNums = TestBank
    /\ dims = TestDims
    /\ extraRules = complexRules
    /\ Start

NextTest == RDraw \/ RExhaust \/ RLoopEnd \/ RReturn

SpecTest == InitTest /\ [][NextTest]_vars

\* the call of the ordered test, orderedArrayWithBankNums({1: 3, ..., 6: 3},
\* [6, 3], allRules), scaled to requests the search can be enumerated on:
\*   - OrdTestRows rows from the numbers 1, 2, 4, 5, the first three with a
\*     limit of OrdTestRows: two rows may start alike, noThreeRowsSamePos
\*     rejects a third;
\*   - two rows that use the bank up: every number as often as its limit;
\*   - one row from 1..4: noThreeConsecutive rejects 1,2,3 and 2,3,4;
\*   - one row from 1, 2, 6, 7: maxDiff4 rejects 6 after 1 and 7 after 2.
OrderedTestRequests ==
    {[bankNums |-> (1 :> OrdTestRows @@ 2 :> OrdTestRows @@ 4 :> OrdTestRows
                    @@ 5 :> 1),
      dims |-> <<OrdTestRows, ROW_SIZE>>],
     [bankNums |-> (1 :> 2 @@ 2 :> 1 @@ 4 :> 2 @@ 5 :> 1),
      dims |-> <<2, ROW_SIZE>>],
     [bankNums |-> [n \in 1..4 |-> 1], dims |-> <<1, ROW_SIZE>>],
     [bankNums |-> (1 :> 1 @@ 2 :> 1 @@ 6 :> 1 @@ 7 :> 1),
      dims |-> <<1, ROW_SIZE>>]}

InitOrderedTest ==
    /\ call = "ordered"
    /\ \E request \in OrderedTestRequests :
           bankNums = request.bankNums /\ dims = request.dims
    /\ extraRules = allRules
    /\ Start

SpecOrderedTest == InitOrderedTest /\ [][NextOrdered]_vars

\* arrayWithBankNums on the bank {1: 2, 2: 2}, with onlyEven and without
EvenBank == [n \in 1..2 |-> 2]

InitOnlyEven ==
    /\ call = "random"
    /\ bankNums = EvenBank
    /\ dims \in {<<n>> : n \in 0..EvenLen}
    /\ extraRules \in {NoRule, onlyEven}
    /\ Start

SpecOnlyEven == InitOnlyEven /\ [][NextTest]_vars

----------------------------------------------------------------------------
(* Calls of decompressRow and decompressMatrix. *)

\* a call of a pure function: the variables of the generators are at rest
PureStart ==
    /\ suspended = <<>>
    /\ bankNums = <<>>
    /\ dims = <<0>>
    /\ extraRules = NoRule
    /\ pc = "call"
    /\ flatArray = <<>>
    /\ usageCount = EmptyUsage
    /\ i = 0
    /\ attempts = 0
    /\ stack = <<>>
    /\ attempt = 0
    /\ result = Null
    /\ warnings = <<>>
    /\ output = <<>>

SeqsUpTo(S, n) == UNION {[1..k -> S] : k \in 0..n}

Sizes == 0..MaxSize

\* indices: in range, 0 and size + 1 out of range
Indexes == 0..(MaxSize + 1)

IndexLists == SeqsUpTo(Indexes, MaxIndexes)

\* the 1-based positions where a boolean row is true, in ascending order
TrueIndexes(b) == SelectSeq([p \in 1..Len(b) |-> p], LAMBDA p : b[p])

BooleanRows(n) == [1..n -> BOOLEAN]

EncodedRows == {TrueIndexes(b) : b \in UNION {BooleanRows(n) : n \in Sizes}}

\* the matrix of the example of decompressMatrix
DocumentedMatrix == <<<<3, 5, 6>>, <<1, 3, 6>>, <<1, 4, 5>>>>

Matrices ==
    SeqsUpTo(SeqsUpTo(Indexes, MaxRowIndexes), MaxMatrixRows)
    \cup {DocumentedMatrix}

CallDecompressRow ==
    /\ call = "decompressRow" /\ pc = "call"
    /\ output' = decompressRow(args.compressedRow, args.size)
    /\ pc' = "done"
    /\ UNCHANGED <<call, args, suspended, bankNums, dims, extraRules, flatArray,
                   usageCount, i, attempts, stack, attempt, result, warnings>>

CallDecompressMatrix ==
    /\ call = "decompressMatrix" /\ pc = "call"
    /\ output' = decompressMatrix(args.compressedMatrix, args.rowSize)
    /\ pc' = "done"
    /\ UNCHANGED <<call, args, suspended, bankNums, dims, extraRules, flatArray,
                   usageCount, i, attempts, stack, attempt, result, warnings>>

InitCodec ==
    /\ call = "decompressRow"
    /\ args \in [compressedRow : IndexLists \cup EncodedRows, size : Sizes]
    /\ PureStart

NextCodec == CallDecompressRow

SpecCodec == InitCodec /\ [][NextCodec]_vars

InitCodecMatrix ==
    /\ call = "decompressMatrix"
    /\ args \in [compressedMatrix : Matrices, rowSize : Sizes]
    /\ PureStart

NextCodecMatrix == CallDecompressMatrix

SpecCodecMatrix == InitCodecMatrix /\ [][NextCodecMatrix]_vars

----------------------------------------------------------------------------
(* Calls of a rule: rule(candidateNum, currentArray, rowSize), rowSize      *)
(* undefined when the caller passes two arguments.                          *)

\* the rules of the library, those made by a function with sample arguments
BaseRules ==
    {onlyEven, onlyOdd, inRange(2, 8), notInRange(2, 8),
     noConsecutiveRepeats, maxOccurrences(2), noDuplicates,
     noRepeatInLast(2), sumLessThan(6), sumGreaterThan(3),
     averageInRange(2, 3), ascending, descending, different,
     alternateEvenOdd, divisibleBy(3), notDivisibleBy(3),
     byPosition(0 :> onlyEven @@ 2 :> ascending),
     onEvenPositions(onlyEven), onOddPositions(onlyOdd),
     onlyPrimes, onlySquares, maxDifference(1), minDifference(2),
     balanceEvenOdd(1), valueAtPositions(<<0, 2>>, 1)}

\* the rules of a caller that read rowSize
RowSizeRules == {rowStartsWithOne}

\* a rule inside the combinators that should leave its verdict as it is
Wrapped(rule) == {and(<<rule>>), or(<<rule>>), not(not(rule))}

\* the rules and and or are given in pairs
PairParts == {onlyEven, inRange(2, 8), ascending, noDuplicates, onlyPrimes}

RuleLibrary ==
    BaseRules \cup RowSizeRules
    \cup {not(rule) : rule \in BaseRules \cup RowSizeRules}
    \cup UNION {Wrapped(rule) : rule \in BaseRules \cup RowSizeRules}
    \cup {and(<<>>), or(<<>>)}
    \cup {and(<<a, b>>) : a \in PairParts, b \in PairParts}
    \cup {or(<<a, b>>) : a \in PairParts, b \in PairParts}

CallRule ==
    /\ call = "rule" /\ pc = "call"
    /\ output' = Apply(args.rule, args.candidateNum, args.currentArray,
                       args.rowSize)
    /\ pc' = "done"
    /\ UNCHANGED <<call, args, suspended, bankNums, dims, extraRules, flatArray,
                   usageCount, i, attempts, stack, attempt, result, warnings>>

InitRules ==
    /\ call = "rule"
    /\ args \in [rule : RuleLibrary,
                 candidateNum : 0..MaxNum,
                 currentArray : SeqsUpTo(1..MaxBuiltNum, MaxBuiltLen),
                 rowSize : {Undefined} \cup 1..MaxRuleRowSize]
    /\ PureStart

NextRules == CallRule

SpecRules == InitRules /\ [][NextRules]_vars

----------------------------------------------------------------------------
(* What a call returned. *)

Done == pc = "done"

\* the returned values in row-major order
OutFlat == IF is2D THEN Flatten(output) ELSE output

\* the rows of the returned value; a 1-D result is one row
OutRows == IF is2D THEN {output[r] : r \in DOMAIN output} ELSE {output}

StrictlyIncreasing(row) == \A k \in 1..(Len(row) - 1) : row[k] < row[k + 1]

\* rule(candidate, built): the verdict of a rule called with two arguments
Accepts(rule, candidate, built) == Apply(rule, candidate, built, Undefined)

\* the row size the ordered solver is documented to pass to its rule
DocumentedRowSize == IF Len(dims) = 2 THEN dims[2] ELSE dims[1]

----------------------------------------------------------------------------
(* C1: every value either generator returns is a key of the bank, and it   *)
(* occurs in the whole output at most as often as the bank allows.          *)
C1_OutputWithinBank ==
    Done =>
        \A k \in 1..Len(OutFlat) :
            /\ OutFlat[k] \in DOMAIN bankNums
            /\ Count(OutFlat, OutFlat[k]) <= bankNums[OutFlat[k]]

(* C2: in every output of orderedArrayWithBankNums each row is strictly    *)
(* increasing from left to right (so no row holds a value twice).           *)
C2_RowsStrictlyIncreasing ==
    (Done /\ call = "ordered") => \A row \in OutRows : StrictlyIncreasing(row)

\* a returned matrix of two or more full rows of two or more values
C2_Witness ==
    /\ Done /\ call = "ordered" /\ is2D
    /\ Len(output) >= 2
    /\ \A r \in DOMAIN output : Len(output[r]) >= 2

(* C3: every element arrayWithBankNums returns was accepted by the rule on *)
(* that element and the output before it; with noConsecutiveInRow no two    *)
(* neighbours in a row of a three column matrix differ by exactly 1.        *)
C3_RandomOutputAccepted ==
    (Done /\ call = "random" /\ extraRules # NoRule) =>
        /\ \A k \in 1..Len(OutFlat) :
               Apply(extraRules, OutFlat[k], Prefix(OutFlat, k - 1), Undefined)
        /\ (extraRules \in {noConsecutiveInRow, complexRules}
                /\ is2D /\ dims[2] = testRowSize) =>
               \A r \in DOMAIN output :
                   \A k \in 1..(Len(output[r]) - 1) :
                       Abs(output[r][k] - output[r][k + 1]) # 1

\* a three column matrix built under noConsecutiveInRow: two values were
\* accepted, and the rule then rejected the only number the bank had left
C3_Witness ==
    /\ Done /\ call = "random" /\ extraRules = noConsecutiveInRow
    /\ is2D /\ dims[2] = testRowSize
    /\ Len(OutFlat) = 2 /\ warnings # <<>>
    /\ \E n \in DOMAIN bankNums : Count(OutFlat, n) < bankNums[n]

(* C4: every element of a non-empty output of orderedArrayWithBankNums was *)
(* accepted by the rule on that element, the output before it and the row   *)
(* size (columns of a matrix, the length of a 1-D request); the calls of    *)
(* solve a result is returned through are the branch that built it, never   *)
(* an abandoned one.                                                        *)
C4_OrderedOutputAccepted ==
    /\ (Done /\ call = "ordered" /\ extraRules # NoRule /\ Len(OutFlat) > 0) =>
           \A k \in 1..Len(OutFlat) :
               Apply(extraRules, OutFlat[k], Prefix(OutFlat, k - 1),
                     DocumentedRowSize)
    /\ (call = "ordered" /\ pc = "return") =>
           \A d \in 1..Len(stack) :
               stack[d].flatArray = Prefix(result.array, d - 1)
    /\ (Done /\ call = "ordered") => OutFlat = result.array

\* a full matrix of two or more rows and columns returned under the rule
\* that reads rowSize
C4_Witness ==
    /\ Done /\ call = "ordered" /\ extraRules = rowStartsWithOne
    /\ is2D /\ dims[1] >= 2 /\ dims[2] >= 2
    /\ Len(OutFlat) = totalElements

(* C5: arrayWithBankNums called with an empty bank and a length above 0    *)
(* returns the empty sequence, with or without a rule.                      *)
C5_EmptyBankEmptyOutput ==
    (Done /\ call = "random" /\ DOMAIN bankNums = {} /\ totalElements > 0) =>
        OutFlat = <<>>

(* C6: when 1000 draws at a position of arrayWithBankNums give no accepted *)
(* candidate the call stops there: no later position is tried, what was     *)
(* appended is returned (a matrix keeps its rows, cut where the values      *)
(* end), exactly one warning names the position and the cap; the returned   *)
(* count equals the requested total exactly when no exhaustion occurred.    *)
C6_State ==
    call = "random" =>
        /\ Len(warnings) <= 1
        /\ warnings # <<>> =>
              /\ warnings[1] = [position |-> Len(flatArray), cap |-> maxAttempts]
              /\ attempts = maxAttempts
              /\ pc \in {"reshape", "done"}
        /\ Done =>
              /\ OutFlat = flatArray
              /\ (Len(OutFlat) = totalElements) <=> (warnings = <<>>)
              /\ is2D => /\ Len(output) = dims[1]
                         /\ \A r \in DOMAIN output :
                                output[r] = RowOf(flatArray, r - 1, dims[2])

C6_Step ==
    /\ (call = "random" /\ pc = "loop" /\ attempts = maxAttempts) =>
           (pc' = "reshape" /\ Len(warnings') = 1)
    /\ (call = "random" /\ warnings # <<>>) =>
           (flatArray' = flatArray /\ i' = i /\ attempts' = attempts
            /\ warnings' = warnings)

\* C6: exhaustion at a position stops the call with one warning and a
\* partial result, in every state and across every step
C6_ExhaustionStops == []C6_State /\ [][C6_Step]_vars

\* a partial matrix returned after the cap was hit at a later position
C6_Witness ==
    /\ Done /\ call = "random" /\ is2D
    /\ warnings # <<>> /\ warnings[1].position >= 1
    /\ Len(OutFlat) < totalElements

(* C7: when no attempt of orderedArrayWithBankNums finds a full sequence   *)
(* the call returns the empty array (the empty matrix for a 2-D request)    *)
(* with one warning; its output holds totalElements values or none.         *)
C7_State ==
    (Done /\ call = "ordered") =>
        /\ Len(OutFlat) \in {0, totalElements}
        /\ warnings # <<>> => (output = <<>> /\ Len(warnings) = 1)
        /\ (warnings = <<>> /\ is2D /\ totalElements > 0) =>
              /\ Len(output) = dims[1]
              /\ \A r \in DOMAIN output : Len(output[r]) = dims[2]

C7_Step ==
    (call = "ordered" /\ pc = "attempts" /\ result = Null
        /\ attempt >= maxRestarts) =>
        (pc' = "done" /\ output' = <<>> /\ Len(warnings') = 1)

\* C7: the ordered output is full or empty; fifty failed attempts return the
\* empty result with one warning
C7_FullOrEmpty == []C7_State /\ [][C7_Step]_vars

\* a 2-D request whose every attempt failed
C7_Witness ==
    /\ Done /\ call = "ordered" /\ is2D /\ totalElements > 0
    /\ attempt = maxRestarts /\ warnings # <<>>
    /\ \E n \in DOMAIN bankNums : bankNums[n] > 0

(* C8: the generators keep to their ceilings and terminate: at most 1000   *)
(* draws at one position; at most 50 search attempts, each started on an    *)
(* empty array and an empty usage counter, none after one succeeded.        *)
C8_State ==
    /\ attempts <= maxAttempts
    /\ attempt <= maxRestarts
    /\ pc \in {"solve", "return"} => attempt < maxRestarts

C8_Step ==
    /\ (pc = "attempts" /\ pc' = "solve") =>
           /\ result = Null /\ attempt < maxRestarts
           /\ Len(stack') = 1
           /\ stack'[1].flatArray = <<>>
           /\ stack'[1].usageCount = EmptyUsage
    /\ (call = "ordered" /\ result # Null /\ pc = "attempts") =>
           (pc' = "done" /\ attempt' = attempt)
    /\ attempt' \in {attempt, attempt + 1}

\* C8: the ceilings hold in every state and step, and every call returns
C8_CeilingsAndTermination == []C8_State /\ [][C8_Step]_vars /\ <>Done

\* the fiftieth attempt of a search has just failed
C8_Witness ==
    /\ call = "ordered" /\ pc = "attempts" /\ totalElements > 0
    /\ attempt = maxRestarts /\ result = Null

(* C9: in a matrix arrayWithBankNums returns under the rule                *)
(* and([noConsecutiveInRow, noThreeRowsWithSameNumber]) of the test, no     *)
(* number occurs in three (or more) consecutive rows.                       *)
C9_NoNumberInThreeRows ==
    (Done /\ call = "random" /\ extraRules = complexRules /\ is2D) =>
        \A n \in DOMAIN bankNums :
            \A r \in 1..(Len(output) - 2) :
                ~(/\ Includes(output[r], n)
                  /\ Includes(output[r + 1], n)
                  /\ Includes(output[r + 2], n))

(* C10: with the bank {1:3, ..., 6:3}, dims [6,3] and no rule,             *)
(* orderedArrayWithBankNums always returns the full matrix, every row       *)
(* strictly increasing and every number exactly 3 times.  Checked on every  *)
(* request of that shape within the bounds: a bank 1..K with one limit L    *)
(* for all its numbers, and a matrix of as many cells as the bank holds     *)
(* (rows * cols = K * L) whose rows are no longer than K.  No attempt of    *)
(* such a call fails.                                                       *)
C10_Scenario ==
    /\ call = "ordered" /\ extraRules = NoRule /\ is2D
    /\ DOMAIN bankNums # {}
    /\ DOMAIN bankNums = 1..Cardinality(DOMAIN bankNums)
    /\ \A n \in DOMAIN bankNums : bankNums[n] = bankNums[1] /\ bankNums[n] > 0
    /\ dims[1] * dims[2] = Cardinality(DOMAIN bankNums) * bankNums[1]
    /\ dims[2] <= Cardinality(DOMAIN bankNums)

\* C10: a request of the 6x3 shape always gets its full matrix, rows
\* strictly increasing, every number as often as its limit
C10_FullMatrix ==
    C10_Scenario =>
        /\ warnings = <<>>
        /\ (pc = "attempts" /\ result = Null) => attempt = 0
        /\ Done =>
              /\ Len(output) = dims[1]
              /\ \A r \in DOMAIN output :
                     Len(output[r]) = dims[2] /\ StrictlyIncreasing(output[r])
              /\ \A n \in DOMAIN bankNums : Count(OutFlat, n) = bankNums[n]

\* the scaled 6x3 request has returned its matrix
C10_Witness ==
    /\ Done /\ C10_Scenario
    /\ bankNums = ScenBank /\ dims = ScenDims
    /\ Len(OutFlat) = ScenKeys * ScenLimit

(* C11: with the bank {1:3, ..., 6:3}, dims [6,3] and the rule            *)
(* and([noRepeatInRow, noThreeConsecutive, maxDiff4, noThreeRowsSamePos])   *)
(* of the test, orderedArrayWithBankNums returns a full matrix of rows of 3 *)
(* values in which every number occurs as often as the bank says (exactly   *)
(* so when the bank holds as many numbers as the matrix has cells), no row  *)
(* is three consecutive integers, neighbours in a row differ by at most 4   *)
(* and no value sits at the same column in three consecutive rows.  Checked *)
(* on the scaled requests of OrderedTestRequests; no attempt of such a call *)
(* fails.                                                                   *)
C11_OrderedTestMatrix ==
    (call = "ordered" /\ extraRules = allRules) =>
        /\ warnings = <<>>
        /\ (pc = "attempts" /\ result = Null) => attempt = 0
        /\ Done =>
              /\ Len(output) = dims[1]
              /\ \A r \in DOMAIN output : Len(output[r]) = ROW_SIZE
              /\ \A n \in DOMAIN bankNums : Count(OutFlat, n) <= bankNums[n]
              /\ Sum([k \in 1..Len(sortedNumbers) |->
                          bankNums[sortedNumbers[k]]]) = totalElements =>
                     \A n \in DOMAIN bankNums :
                         Count(OutFlat, n) = bankNums[n]
              /\ \A r \in DOMAIN output :
                     /\ ~(/\ output[r][2] = output[r][1] + 1
                          /\ output[r][3] = output[r][2] + 1)
                     /\ Abs(output[r][2] - output[r][1]) <= 4
                     /\ Abs(output[r][3] - output[r][2]) <= 4
              /\ \A p \in 1..ROW_SIZE :
                     \A r \in 3..Len(output) :
                         ~(/\ output[r][p] = output[r - 1][p]
                           /\ output[r - 1][p] = output[r - 2][p])

\* a full matrix of OrdTestRows rows whose first two rows start alike
C11_Witness ==
    /\ Done /\ call = "ordered" /\ extraRules = allRules
    /\ dims = <<OrdTestRows, ROW_SIZE>>
    /\ Len(output) = OrdTestRows
    /\ output[1][1] = output[2][1]
    /\ output[3][1] # output[2][1]

(* C12 as stated: with the bank {1:2, 2:2}, dims [5] and onlyEven every    *)
(* element of the result of arrayWithBankNums is 2, and exhaustion is       *)
(* reported at the third position (the warning prints the 0-based index,    *)
(* 2), once the two uses of 2 are consumed: the call returns [2, 2].        *)
C12_OnlyEvenScenario ==
    (call = "random" /\ bankNums = EvenBank /\ dims = <<EvenLen>>
        /\ extraRules = onlyEven) =>
        /\ \A k \in 1..Len(flatArray) : flatArray[k] = 2
        /\ Done =>
              /\ output = <<2, 2>>
              /\ Len(warnings) = 1
              /\ warnings[1].position + 1 = 3
              /\ warnings[1].cap = maxAttempts

(* C12, amended: in that call every element of the result is 2 and there   *)
(* are at most two; the call always ends with one report of exhaustion, at  *)
(* the position after the last element: the third one when both uses of 2   *)
(* were drawn, an earlier one when 1000 draws in a row there selected 1.    *)
C12_OnlyEvenPartial ==
    (call = "random" /\ bankNums = EvenBank /\ dims = <<EvenLen>>
        /\ extraRules = onlyEven) =>
        /\ \A k \in 1..Len(flatArray) : flatArray[k] = 2
        /\ Len(flatArray) <= EvenBank[2]
        /\ usageCount[1] = 0 /\ usageCount[2] = Len(flatArray)
        /\ Done =>
              /\ output = flatArray
              /\ Len(warnings) = 1
              /\ warnings[1] = [position |-> Len(output), cap |-> maxAttempts]
              /\ warnings[1].position + 1 <= 3

\* the call of the scenario has returned [2, 2], exhausted at the third
\* position
C12_Witness ==
    /\ Done /\ call = "random" /\ bankNums = EvenBank /\ dims = <<EvenLen>>
    /\ extraRules = onlyEven
    /\ output = <<2, 2>> /\ warnings[1].position = 2
    /\ attempts = maxAttempts

(* C13: decompressRow(indices, size) returns a boolean sequence of length  *)
(* size whose position p (0-based) is true exactly when p + 1 occurs in     *)
(* indices: indices outside 1..size, repeated indices and the order of the  *)
(* indices make no difference; decompressRow([3,5,6], 6) is                 *)
(* [false, false, true, false, true, true].                                 *)
C13_DecompressRow ==
    (Done /\ call = "decompressRow") =>
        /\ DOMAIN output = 1..args.size
        /\ \A p \in 0..(args.size - 1) :
               output[p + 1] = Includes(args.compressedRow, p + 1)
        /\ args = [compressedRow |-> <<3, 5, 6>>, size |-> 6] =>
               output = <<FALSE, FALSE, TRUE, FALSE, TRUE, TRUE>>

\* a row decompressed from a descending list with a repeated index and an
\* index above size
C13_Witness ==
    /\ Done /\ call = "decompressRow"
    /\ Len(args.compressedRow) = 3
    /\ args.compressedRow[1] > args.size
    /\ args.compressedRow[2] = args.compressedRow[3]
    /\ args.compressedRow[2] \in 1..args.size
    /\ output[args.compressedRow[2]]

(* C14: round trip: for a boolean row b of size n and idx the 1-based      *)
(* positions where b is true, decompressRow(idx, n) is b.                   *)
C14_RoundTrip ==
    (Done /\ call = "decompressRow") =>
        \A b \in BooleanRows(args.size) :
            args.compressedRow = TrueIndexes(b) => output = b

\* the round trip of a row of the largest size with true and false positions
C14_Witness ==
    /\ Done /\ call = "decompressRow" /\ args.size = MaxSize
    /\ \E b \in BooleanRows(args.size) :
           /\ args.compressedRow = TrueIndexes(b)
           /\ Len(TrueIndexes(b)) > MaxIndexes
           /\ \E p \in 1..args.size : ~b[p]

(* C15: decompressMatrix(rows, rowSize) returns one boolean row per input  *)
(* row, in the same order, the k-th being decompressRow(rows[k], rowSize);  *)
(* another k-th input row changes no other row of the output.               *)
C15_DecompressMatrix ==
    (Done /\ call = "decompressMatrix") =>
        LET rows == args.compressedMatrix
        IN  /\ DOMAIN output = DOMAIN rows
            /\ \A k \in DOMAIN rows :
                   output[k] = decompressRow(rows[k], args.rowSize)
            /\ \A k \in DOMAIN rows :
                   \A other \in SeqsUpTo(Indexes, MaxRowIndexes) :
                       LET changed == decompressMatrix(
                               [rows EXCEPT ![k] = other], args.rowSize)
                       IN  \A j \in DOMAIN rows \ {k} : changed[j] = output[j]

\* a matrix of two rows that decompress to different boolean rows
C15_Witness ==
    /\ Done /\ call = "decompressMatrix"
    /\ Len(args.compressedMatrix) = MaxMatrixRows
    /\ output[1] # output[2]
    /\ \E p \in 1..args.rowSize : output[1][p]

(* C16: and(rules) accepts (candidate, built) exactly when every rule of  *)
(* rules accepts (candidate, built); and([]) accepts every input;           *)
(* and([onlyEven, inRange(2, 8)]) rejects 10 and 3 and accepts 4.           *)
C16_And ==
    (Done /\ call = "rule" /\ args.rule.op = "and") =>
        LET rules == args.rule.rules
        IN  /\ output = \A k \in 1..Len(rules) :
                   Accepts(rules[k], args.candidateNum, args.currentArray)
            /\ rules = <<>> => output
            /\ rules = <<onlyEven, inRange(2, 8)>> =>
                   /\ args.candidateNum \in {10, 3} => ~output
                   /\ args.candidateNum = 4 => output

\* and([onlyEven, inRange(2, 8)]) has rejected 10, which onlyEven accepts
C16_Witness ==
    /\ Done /\ call = "rule"
    /\ args.rule = and(<<onlyEven, inRange(2, 8)>>)
    /\ args.candidateNum = 10 /\ ~output
    /\ Accepts(onlyEven, args.candidateNum, args.currentArray)

(* C17: or(rules) accepts (candidate, built) exactly when at least one     *)
(* rule of rules accepts (candidate, built); or([]) rejects every input.    *)
C17_Or ==
    (Done /\ call = "rule" /\ args.rule.op = "or") =>
        LET rules == args.rule.rules
        IN  /\ output = \E k \in 1..Len(rules) :
                   Accepts(rules[k], args.candidateNum, args.currentArray)
            /\ rules = <<>> => ~output

\* or([ascending, onlyPrimes]) has accepted a candidate ascending rejects
C17_Witness ==
    /\ Done /\ call = "rule"
    /\ args.rule = or(<<ascending, onlyPrimes>>)
    /\ output
    /\ ~Accepts(ascending, args.candidateNum, args.currentArray)

(* C18: not(rule) accepts exactly the inputs rule rejects; not(not(r))     *)
(* gives the verdict of r on every candidate and every array built so far,  *)
(* for every rule r of the library, however r is called.                    *)
C18_Not ==
    (Done /\ call = "rule" /\ args.rule.op = "not") =>
        /\ output = ~Accepts(args.rule.rule, args.candidateNum,
                             args.currentArray)
        /\ (args.rule.rule.op = "not" /\ args.rule.rule.rule \in BaseRules) =>
               output = Apply(args.rule.rule.rule, args.candidateNum,
                              args.currentArray, args.rowSize)

\* not(not(r)) has rejected a candidate on an array that is not empty
C18_Witness ==
    /\ Done /\ call = "rule"
    /\ args.rule.op = "not" /\ args.rule.rule.op = "not"
    /\ args.rule.rule.rule = ascending
    /\ args.currentArray # <<>> /\ ~output

(* C19: a rule made with the combinators keeps the three argument contract *)
(* of its parts: for a rule r that reads rowSize, and([r]), or([r]) and     *)
(* not(not(r)) return on (candidate, built, rowSize) the verdict of         *)
(* r(candidate, built, rowSize).                                            *)
C19_CombinatorsKeepRowSize ==
    (Done /\ call = "rule") =>
        \A r \in RowSizeRules :
            args.rule \in Wrapped(r) =>
                output = Apply(r, args.candidateNum, args.currentArray,
                               args.rowSize)

(* C20: for a 2-D request arrayWithBankNums folds its flat sequence        *)
(* row-major into rows of dims[1] elements: the rows of the returned matrix *)
(* concatenated are the flat sequence, and when the flat sequence is        *)
(* partial only the last row of the matrix may be shorter than dims[1].     *)
C20_RowMajorFold ==
    (Done /\ call = "random" /\ is2D) =>
        /\ Flatten(output) = flatArray
        /\ \A r \in 1..(Len(output) - 1) : Len(output[r]) = dims[2]

----------------------------------------------------------------------------
\* a flat sequence cut row-major into rows of cols elements: as many rows as
\* it takes, the last one short when the elements run out
Refold(flat, cols) ==
    IF cols = 0 THEN <<>>
    ELSE [row \in 1..((Len(flat) + cols - 1) \div cols) |->
             RowOf(flat, row - 1, cols)]

(* C21: flattening a matrix either generator returned for dims [rows,      *)
(* columns] and folding the flat sequence again row-major with the same     *)
(* column count gives the matrix back, the last row possibly short, also    *)
(* when arrayWithBankNums stopped early.                                    *)
C21_FlattenRefold ==
    (Done /\ call \in {"random", "ordered"} /\ is2D) =>
        Refold(Flatten(output), dims[2]) = output

----------------------------------------------------------------------------
\* a full-length sequence within the bank limits, strictly increasing inside
\* every row, every element accepted by the rule against the elements before
FullSequence(seq) ==
    /\ Len(seq) = totalElements
    /\ \A n \in DOMAIN bankNums : Count(seq, n) <= bankNums[n]
    /\ \A k \in 1..Len(seq) :
           /\ ((k - 1) % rowSize # 0) => seq[k] > seq[k - 1]
           /\ PassesExtraRules(extraRules, seq[k], Prefix(seq, k - 1), rowSize)

HasSolution == \E seq \in [1..totalElements -> DOMAIN bankNums] : FullSequence(seq)

\* an attempt of the current call has ended with null
AttemptFailed == call = "ordered" /\ attempt >= 1 /\ result = Null

----------------------------------------------------------------------------
\* every call of the library: the two generators and the two decompressors
InitLibrary == Init \/ InitCodec \/ InitCodecMatrix

NextLibrary == Next \/ CallDecompressRow \/ CallDecompressMatrix

SpecLibrary == InitLibrary /\ [][NextLibrary]_vars

(* C23: no step of a call changes its inputs: the bank (keys and limits)    *)
(* and dims of a generator, the index lists of decompressRow and            *)
(* decompressMatrix, are after the return what the caller passed in,        *)
(* whether the result is full, partial or empty.                            *)
C23_InputsUnchanged ==
    [][bankNums' = bankNums /\ dims' = dims /\ args' = args]_vars

\* arrayWithBankNums has returned a partial matrix from a bank with limits
C23_Witness ==
    /\ Done /\ call = "random" /\ is2D
    /\ warnings # <<>> /\ flatArray # <<>>
    /\ \E n \in DOMAIN bankNums : bankNums[n] > 0

----------------------------------------------------------------------------
(* Two invocations whose steps interleave. Every invocation has the locals  *)
(* its function body declares; the one that is not running keeps them in    *)
(* suspended.                                                               *)

\* the arguments and locals of the running invocation
Running ==
    [call |-> call, bankNums |-> bankNums, dims |-> dims,
     extraRules |-> extraRules, pc |-> pc, flatArray |-> flatArray,
     usageCount |-> usageCount, i |-> i, attempts |-> attempts,
     stack |-> stack, attempt |-> attempt, result |-> result,
     warnings |-> warnings, output |-> output]

\* the arguments and locals of an invocation that has not made a step
Fresh(request) ==
    [call |-> request.call, bankNums |-> request.bankNums,
     dims |-> request.dims, extraRules |-> request.extraRules,
     pc |-> IF request.call = "random" THEN "loop" ELSE "attempts",
     flatArray |-> <<>>,
     usageCount |-> [n \in DOMAIN request.bankNums \cup {Undefined} |-> 0],
     i |-> 0, attempts |-> 0, stack |-> <<>>, attempt |-> 0, result |-> Null,
     warnings |-> <<>>, output |-> <<>>]

\* arrayWithBankNums stopping at either position, or returning [1]
ExhaustingRequest ==
    [call |-> "random", bankNums |-> (1 :> 1 @@ 2 :> 0), dims |-> <<2>>,
     extraRules |-> NoRule]

\* orderedArrayWithBankNums backing out of the dead end behind 2
BacktrackingRequest ==
    [call |-> "ordered", bankNums |-> (1 :> 1 @@ 2 :> 1), dims |-> <<2>>,
     extraRules |-> ascending]

\* arrayWithBankNums counting up to two uses of either number
CountingRequest ==
    [call |-> "random", bankNums |-> (1 :> 2 @@ 2 :> 2), dims |-> <<2>>,
     extraRules |-> NoRule]

InterleavedRequests == {ExhaustingRequest, BacktrackingRequest, CountingRequest}

\* two invocations; not both going through the 1000 draws of every position
InterleavedPairs ==
    {pair \in InterleavedRequests \X InterleavedRequests :
        pair[1] # ExhaustingRequest \/ pair[2] # ExhaustingRequest}

\* the running invocation takes the place of frame, but for its usageCount
ResumeButUsage(frame) ==
    /\ call' = frame.call
    /\ bankNums' = frame.bankNums
    /\ dims' = frame.dims
    /\ extraRules' = frame.extraRules
    /\ pc' = frame.pc
    /\ flatArray' = frame.flatArray
    /\ i' = frame.i
    /\ attempts' = frame.attempts
    /\ stack' = frame.stack
    /\ attempt' = frame.attempt
    /\ result' = frame.result
    /\ warnings' = frame.warnings
    /\ output' = frame.output

\* Switch with one usageCount for all invocations (a module-level object)
SwitchSharingUsage ==
    /\ suspended # <<>>
    /\ suspended' = Running
    /\ ResumeButUsage(suspended)
    /\ usageCount' = usageCount
    /\ UNCHANGED args

\* the running invocation is left where it is and the other one goes on
Switch ==
    /\ suspended # <<>>
    /\ suspended' = Running
    /\ ResumeButUsage(suspended)
    /\ usageCount' = suspended.usageCount
    /\ UNCHANGED args

InitInterleaved ==
    /\ \E pair \in InterleavedPairs :
          /\ call = pair[1].call
          /\ bankNums = pair[1].bankNums
          /\ dims = pair[1].dims
          /\ extraRules = pair[1].extraRules
          /\ suspended = Fresh(pair[2])
    /\ StartLocals

NextInterleaved == Next \/ Switch

SpecInterleaved == InitInterleaved /\ [][NextInterleaved]_vars

\* the sequence keeps to the bank and the rule of the invocation
Admissible(frame, seq) ==
    /\ \A n \in DOMAIN frame.bankNums : Count(seq, n) <= frame.bankNums[n]
    /\ \A k \in 1..Len(seq) :
           /\ seq[k] \in DOMAIN frame.bankNums
           /\ PassesExtraRules(frame.extraRules, seq[k], Prefix(seq, k - 1),
                               IF frame.call = "random" THEN Undefined
                               ELSE frame.dims[1])

\* the counter holds the occurrences in the sequence, and nothing else
CountsOf(usage, seq) ==
    \A n \in DOMAIN usage : usage[n] = Count(seq, n)

\* what the invocation can return when it runs alone, for a 1-D request
\* (arrayWithBankNums stops early only where a draw can fail)
SoloResults(frame) ==
    IF frame.call = "random"
    THEN {seq \in SeqsUpTo(DOMAIN frame.bankNums, frame.dims[1]) :
             /\ Admissible(frame, seq)
             /\ Len(seq) < frame.dims[1] =>
                    \E n \in DOMAIN frame.bankNums :
                        \/ Count(seq, n) >= frame.bankNums[n]
                        \/ ~PassesExtraRules(frame.extraRules, n, seq, Undefined)}
    ELSE LET full == {seq \in [1..frame.dims[1] -> DOMAIN frame.bankNums] :
                         Admissible(frame, seq) /\ StrictlyIncreasing(seq)}
         IN  IF full = {} THEN {<<>>} ELSE full

\* the locals of an invocation are those of a run of its own
SoloState(frame) ==
    /\ frame.call = "random" =>
           /\ Admissible(frame, frame.flatArray)
           /\ CountsOf(frame.usageCount, frame.flatArray)
           /\ frame.i = Len(frame.flatArray)
    /\ frame.call = "ordered" =>
           \A d \in DOMAIN frame.stack :
               /\ Admissible(frame, frame.stack[d].flatArray)
               /\ CountsOf(frame.stack[d].usageCount, frame.stack[d].flatArray)
               /\ Len(frame.stack[d].flatArray) = d - 1
    /\ frame.pc = "done" => frame.output \in SoloResults(frame)

C24_State == SoloState(Running) /\ SoloState(suspended)

C24_Step ==
    \/ suspended' = suspended
    \/ suspended' = Running /\ Running' = suspended

(* C24: two invocations whose steps interleave do not influence each        *)
(* other: a step of one leaves the usage counter, the sequence and every    *)
(* other local of the other as they are, the locals of each are at all      *)
(* times those of a run of its own, and what each returns is a result it    *)
(* can return when it runs alone.                                           *)
C24_InvocationsIndependent == []C24_State /\ [][C24_Step]_vars

\* both have returned: the one that ran last with a partial result, the one
\* that had to wait for it with a full one
C24_Witness ==
    /\ Done /\ suspended.pc = "done"
    /\ call = "random" /\ Len(output) = 1 /\ warnings # <<>>
    /\ suspended.call = "ordered" /\ suspended.output = <<1, 2>>

----------------------------------------------------------------------------
(* Calls of the rules that look back over the sequence, on sequences every  *)
(* element of which the rule accepted against the elements before it: the   *)
(* sequences arrayWithBankNums builds with the rule, and the candidate of   *)
(* its next draw.                                                           *)

PrefixRules ==
    {averageInRange(min, max) : min \in 1..MaxPrefixNum, max \in 1..MaxPrefixNum}
    \cup {noRepeatInLast(positions) : positions \in 0..MaxPositions}
    \cup {balanceEvenOdd(maxImbalance) : maxImbalance \in 0..MaxImbalance}

InitPrefixRules ==
    /\ call = "rule"
    /\ args \in [rule : PrefixRules,
                 candidateNum : 1..MaxPrefixNum,
                 currentArray : SeqsUpTo(1..MaxPrefixNum, MaxPrefixLen),
                 rowSize : {Undefined}]
    /\ PureStart

SpecPrefixRules == InitPrefixRules /\ [][NextRules]_vars

\* every element was accepted by the rule against the elements before it
AcceptedByPrefix(rule, seq) ==
    \A k \in 1..Len(seq) : Accepts(rule, seq[k], Prefix(seq, k - 1))

\* the rule has accepted the candidate, as it did every element before it
Extended ==
    /\ Done /\ output = TRUE
    /\ AcceptedByPrefix(args.rule, args.currentArray)

\* the sequence with the accepted candidate
ExtendedArray == Append(args.currentArray, args.candidateNum)

\* min <= sum / length <= max, compared without the division
AverageWithin(seq, min, max) ==
    Sum(seq) >= min * Len(seq) /\ Sum(seq) <= max * Len(seq)

(* C25: in a sequence every element of which averageInRange(min, max)       *)
(* accepted against the elements before it, the average of every non-empty  *)
(* prefix, the prefix of length 1 included, lies within [min, max].         *)
C25_PrefixAverages ==
    (Extended /\ args.rule.op = "averageInRange") =>
        \A k \in 1..Len(ExtendedArray) :
            AverageWithin(Prefix(ExtendedArray, k), args.rule.min, args.rule.max)

----------------------------------------------------------------------------
\* the last min(positions, length) elements of a sequence
Window(seq, positions) ==
    LET size == IF positions < Len(seq) THEN positions ELSE Len(seq)
    IN  SubSeq(seq, Len(seq) - size + 1, Len(seq))

(* C26: noRepeatInLast(n) accepts a candidate exactly when it does not      *)
(* occur among the last min(n, length) elements of the sequence built so    *)
(* far, for every n >= 0; with n = 0 the window is empty and every          *)
(* candidate is accepted.                                                   *)
C26_NoRepeatInWindow ==
    (Done /\ args.rule.op = "noRepeatInLast") =>
        output = ~Includes(Window(args.currentArray, args.rule.positions),
                           args.candidateNum)

----------------------------------------------------------------------------
\* the even elements of a sequence less its odd elements
EvenSurplus(seq) == EvenCount(seq) - (Len(seq) - EvenCount(seq))

(* C27: in a sequence every element of which balanceEvenOdd(n), n >= 0,     *)
(* accepted against the elements before it, the number of even elements and *)
(* the number of odd elements of every prefix differ by at most n, whichever *)
(* of the two is the larger.                                                *)
C27_PrefixesBalanced ==
    (Extended /\ args.rule.op = "balanceEvenOdd") =>
        \A k \in 0..Len(ExtendedArray) :
            /\ EvenSurplus(Prefix(ExtendedArray, k)) <= args.rule.maxImbalance
            /\ -EvenSurplus(Prefix(ExtendedArray, k)) <= args.rule.maxImbalance

\* a full-length sequence accepted by balanceEvenOdd(1), with a prefix that
\* has one more even and a prefix that has one more odd element
C27_Witness ==
    /\ Extended /\ args.rule = balanceEvenOdd(1)
    /\ Len(ExtendedArray) = MaxPrefixLen + 1
    /\ \E k \in 1..Len(ExtendedArray) : EvenSurplus(Prefix(ExtendedArray, k)) = 1
    /\ \E k \in 1..Len(ExtendedArray) : EvenSurplus(Prefix(ExtendedArray, k)) = -1

----------------------------------------------------------------------------
\* the keys of the bank that may be used at all
PositiveKeys == {n \in DOMAIN bankNums : bankNums[n] > 0}

(* C28: for a 1-D request <<length>> orderedArrayWithBankNums has the whole *)
(* sequence as one row: what it returns is empty, or it has the requested   *)
(* length and is strictly increasing from its first to its last element; a  *)
(* request longer than the number of keys with a positive limit returns the *)
(* empty sequence.                                                          *)
C28_FlatRequestOneRow ==
    (Done /\ call = "ordered" /\ ~is2D) =>
        /\ \/ output = <<>>
           \/ Len(output) = dims[1] /\ StrictlyIncreasing(output)
        /\ dims[1] > Cardinality(PositiveKeys) => output = <<>>

\* a 1-D request as long as the bank has keys, answered with all of them
C28_Witness ==
    /\ Done /\ call = "ordered" /\ ~is2D
    /\ dims[1] = MaxLen /\ Cardinality(PositiveKeys) = MaxLen
    /\ Len(output) = MaxLen

----------------------------------------------------------------------------
\* the for loop of arrayWithBankNums is at the position behind the sequence
C29_State == call = "random" => i = Len(flatArray)

\* a step appends one element at the end of the sequence, or leaves it alone
C29_Step ==
    call = "random" =>
        \/ flatArray' = flatArray /\ i' = i
        \/ /\ Len(flatArray') = Len(flatArray) + 1
           /\ Prefix(flatArray', Len(flatArray)) = flatArray
           /\ i' = i + 1

(* C29: arrayWithBankNums never revises an element it has appended: during *)
(* a call the sequence only grows by one element at its end, the positions  *)
(* 0, 1, 2, ... are filled in this order; hence a call can end with a       *)
(* partial result although a full-length sequence within the bank limits    *)
(* and the rule exists (bank {1: 1, 2: 1}, dims [2], ascending, 2 drawn     *)
(* first).                                                                  *)
C29_NeverRevises == []C29_State /\ [][C29_Step]_vars

\* the call on {1: 1, 2: 1}, [2], ascending has returned [2], where [1, 2]
\* is a full-length sequence within the limits that the rule accepts
C29_Witness ==
    /\ Done /\ call = "random"
    /\ bankNums = (1 :> 1 @@ 2 :> 1) /\ dims = <<2>> /\ extraRules = ascending
    /\ output = <<2>> /\ warnings # <<>>
    /\ Admissible(Running, <<1, 2>>)

----------------------------------------------------------------------------
(* C30: at every step of both generators the usage counter of every value   *)
(* is the number of occurrences of the value in the sequence built so far,  *)
(* in the solver the sequence of the branch a call of solve works on; so    *)
(* it is right after the solver has backed out of a failed branch, and at   *)
(* the start of every attempt, where the sequence and the counter are       *)
(* empty.                                                                   *)
C30_UsageCountsOccurrences ==
    /\ call = "random" => CountsOf(usageCount, flatArray)
    /\ call = "ordered" =>
           /\ \A d \in DOMAIN stack :
                  /\ CountsOf(stack[d].usageCount, stack[d].flatArray)
                  /\ Len(stack[d].flatArray) = d - 1
           /\ stack # <<>> =>
                  stack[1].flatArray = <<>> /\ stack[1].usageCount = EmptyUsage

\* the solver is back in the outermost call of solve of a restart, the
\* branch behind 2 given up, 1 still to try
C30_Witness ==
    /\ call = "ordered" /\ pc = "solve" /\ attempt >= 1
    /\ bankNums = (1 :> 1 @@ 2 :> 1) /\ dims = <<2>> /\ extraRules = onlyEven
    /\ Len(stack) = 1 /\ Top.shuffled = <<1>>

============================================================================
